---- MODULE Spec2Model ----
(***************************************************************************)
(* A model of upgrade/helpers/tools.py: the reachability poller            *)
(* (host_pings), the hostname resolver (get_hostname_from_ip), the SSH key *)
(* propagation (copy_ssh_key), the version extractor (get_sat_cap_version) *)
(* and the setup-state persistence (create_setup_dict / get_setup_data).   *)
(* Each helper is an independent operation, so each has a specification of *)
(* its own over the variables it uses; the other variables stay at their   *)
(* initial values.  Time is counted in whole seconds.                      *)
(***************************************************************************)
EXTENDS Integers, Sequences, FiniteSets, TLC

VARIABLES
    clock,        \* the value time.time() returns
    hp_pc,        \* host_pings: position in the function
    hp_timeout,   \* host_pings: the timeout argument (minutes)
    hp_timeup,    \* host_pings: the local timeup
    hp_output,    \* host_pings: exit code echoed by the last ping
    hp_ret,       \* host_pings: the returned value
    hp_hist,      \* host_pings: history of the call (pings, sleeps, durations)
    gh_pc,        \* get_hostname_from_ip: position in the function
    gh_timeout,   \* get_hostname_from_ip: the timeout argument (minutes)
    gh_timeup,    \* get_hostname_from_ip: the local timeup
    gh_output,    \* get_hostname_from_ip: output[ip] of the last execute()
    gh_ret,       \* get_hostname_from_ip: the returned value
    gh_failN,     \* the remote host: 'hostname' fails this many times first
    gh_hist,      \* get_hostname_from_ip: history of the call
    fs,           \* the hosts' ~/.ssh: directory, key files, authorized_keys
    pub_key,      \* copy_ssh_key: the local pub_key of the last call
    ssh_pc,       \* copy_ssh_key: outcome of the last call
    ssh_args,     \* copy_ssh_key: arguments of the last call
    ssh_log,      \* the remote commands the last call executed, in order
    ssh_before,   \* the hosts' state when the last call started
    ssh_hist,     \* key read per source, key lines sent per source and target
    ver_pc,       \* get_sat_cap_version: outcome of the call
    ver_product,  \* get_sat_cap_version: the product argument
    ver_remote,   \* the remote host: the output of each command
    ver_log,      \* the remote commands the call ran, in order
    ver_ret,      \* get_sat_cap_version: the returned value
    ver_warning,  \* the text of the logged warning
    setup_file,   \* the file product_setup in the working directory
    setup_arg,    \* create_setup_dict: argument of the most recent call
    setup_put,    \* create_setup_dict: outcome of the most recent call
    setup_get,    \* get_setup_data: outcome of the call after the last write
    setup_data    \* get_setup_data: the returned value

hp_vars == <<hp_pc, hp_timeout, hp_timeup, hp_output, hp_ret, hp_hist>>
ssh_vars == <<fs, pub_key, ssh_pc, ssh_args, ssh_log, ssh_before, ssh_hist>>
ver_vars == <<ver_pc, ver_product, ver_remote, ver_log, ver_ret, ver_warning>>
setup_vars == <<setup_file, setup_arg, setup_put, setup_get, setup_data>>
gh_vars == <<gh_pc, gh_timeout, gh_timeup, gh_output, gh_ret, gh_failN, gh_hist>>

\* what each helper leaves alone: the variables of the other helpers
hp_others == <<gh_vars, ssh_vars, ver_vars, setup_vars>>
gh_others == <<hp_vars, ssh_vars, ver_vars, setup_vars>>
ssh_others == <<clock, hp_vars, gh_vars, ver_vars, setup_vars>>
ver_others == <<clock, hp_vars, gh_vars, ssh_vars, setup_vars>>
setup_others == <<clock, hp_vars, gh_vars, ssh_vars, ver_vars>>

(***************************************************************************)
(* Bounds and program constants.                                           *)
(***************************************************************************)
MaxTimeout == 1          \* timeouts of 0 .. MaxTimeout minutes
MaxPingDur == 2          \* one ping takes 0 .. MaxPingDur seconds
SecondsPerMinute == 60
RetryInterval == 5
ExitCodes == {0, 1, 2}   \* exit codes of ping -c1: reply, no reply, error

MaxCmdDur == 2           \* one remote command takes 0 .. MaxCmdDur seconds
Hostnames == {"sat.example.com", "cap.example.com"}

Timeouts == 0 .. MaxTimeout
\* enough failures of the remote command to outlast every timeout
MaxFail == (MaxTimeout * SecondsPerMinute) \div RetryInterval + 2

(***************************************************************************)
(* host_pings(host, timeout)                                               *)
(***************************************************************************)
hp_hist0 ==
    [pings |-> 0, sleeps |-> 0, allOk |-> TRUE, allFail |-> TRUE,
     firstDur |-> 0, lastDur |-> 0, start |-> 0]

Deadline_seconds(now, timeout) == now + timeout

\* timeup = time.time() + int(timeout) * 60
Deadline(now, timeout) == now + timeout * SecondsPerMinute

PastDeadline_inclusive(now, limit) == now >= limit

\* if time.time() > timeup
PastDeadline(now, limit) == now > limit

\* time.sleep(5)
SleepFor == RetryInterval

host_pings_init ==
    /\ hp_pc = "idle"
    /\ hp_timeout = 0
    /\ hp_timeup = 0
    /\ hp_output = 0
    /\ hp_ret = FALSE
    /\ hp_hist = hp_hist0

\* the call: the deadline is computed once, before the loop
host_pings_call(timeout) ==
    /\ hp_pc = "idle"
    /\ hp_timeout' = timeout
    /\ hp_timeup' = Deadline(clock, timeout)
    /\ hp_hist' = [hp_hist EXCEPT !.start = clock]
    /\ hp_pc' = "ping"
    /\ UNCHANGED <<clock, hp_output, hp_ret>>
    /\ UNCHANGED hp_others

\* subprocess.Popen('ping -c1 host; echo $?').communicate(): the ping takes
\* dur seconds and echoes its exit code
host_pings_ping(dur, code) ==
    /\ hp_pc = "ping"
    /\ clock' = clock + dur
    /\ hp_output' = code
    /\ hp_hist' = [hp_hist EXCEPT
                     !.pings = @ + 1,
                     !.allOk = @ /\ code = 0,
                     !.allFail = @ /\ code # 0,
                     !.firstDur = IF hp_hist.pings = 0 THEN dur ELSE @,
                     !.lastDur = dur]
    /\ hp_pc' = "check"
    /\ UNCHANGED <<hp_timeout, hp_timeup, hp_ret>>
    /\ UNCHANGED hp_others

host_pings_check_success_first ==
    /\ hp_pc = "check"
    /\ IF hp_output = 0
         THEN /\ hp_ret' = TRUE
              /\ hp_pc' = "done"
         ELSE IF PastDeadline(clock, hp_timeup)
                THEN /\ hp_ret' = FALSE
                     /\ hp_pc' = "done"
                ELSE /\ hp_ret' = hp_ret
                     /\ hp_pc' = "sleep"
    /\ UNCHANGED <<clock, hp_timeout, hp_timeup, hp_output, hp_hist>>
    /\ UNCHANGED hp_others

\* the checks after the ping: the deadline first, then the exit code
host_pings_check ==
    /\ hp_pc = "check"
    /\ IF PastDeadline(clock, hp_timeup)
         THEN /\ hp_ret' = FALSE
              /\ hp_pc' = "done"
         ELSE IF hp_output = 0
                THEN /\ hp_ret' = TRUE
                     /\ hp_pc' = "done"
                ELSE /\ hp_ret' = hp_ret
                     /\ hp_pc' = "sleep"
    /\ UNCHANGED <<clock, hp_timeout, hp_timeup, hp_output, hp_hist>>
    /\ UNCHANGED hp_others

\* time.sleep(5), then the next iteration
host_pings_sleep ==
    /\ hp_pc = "sleep"
    /\ clock' = clock + SleepFor
    /\ hp_hist' = [hp_hist EXCEPT !.sleeps = @ + 1]
    /\ hp_pc' = "ping"
    /\ UNCHANGED <<hp_timeout, hp_timeup, hp_output, hp_ret>>
    /\ UNCHANGED hp_others

host_pings ==
    \/ \E timeout \in Timeouts : host_pings_call(timeout)
    \/ \E dur \in 0 .. MaxPingDur, code \in ExitCodes : host_pings_ping(dur, code)
    \/ host_pings_check
    \/ host_pings_sleep

(***************************************************************************)
(* get_hostname_from_ip(ip, timeout)                                       *)
(***************************************************************************)
NoValue == [kind |-> "none", val |-> ""]
PyFalse == [kind |-> "False", val |-> ""]
PyStr(str) == [kind |-> "str", val |-> str]

gh_hist0 ==
    [attempts |-> 0, sleeps |-> 0, failedDur |-> 0, lastOk |-> FALSE,
     start |-> 0]

get_hostname_from_ip_init ==
    /\ gh_pc = "idle"
    /\ gh_timeout = 0
    /\ gh_timeup = 0
    /\ gh_output = ""
    /\ gh_ret = NoValue
    /\ gh_failN = 0
    /\ gh_hist = gh_hist0

\* the call, against a remote host whose 'hostname' command fails failN
\* times and then succeeds
get_hostname_from_ip_call(timeout, failN) ==
    /\ gh_pc = "idle"
    /\ gh_timeout' = timeout
    /\ gh_failN' = failN
    /\ gh_timeup' = Deadline(clock, timeout)
    /\ gh_hist' = [gh_hist EXCEPT !.start = clock]
    /\ gh_pc' = "check"
    /\ UNCHANGED <<clock, gh_output, gh_ret>>
    /\ UNCHANGED gh_others

\* top of the loop: if time.time() > timeup: return False
get_hostname_from_ip_check ==
    /\ gh_pc = "check"
    /\ IF PastDeadline(clock, gh_timeup)
         THEN /\ gh_ret' = PyFalse
              /\ gh_pc' = "done"
         ELSE /\ gh_ret' = gh_ret
              /\ gh_pc' = "try"
    /\ UNCHANGED <<clock, gh_timeout, gh_timeup, gh_output, gh_failN, gh_hist>>
    /\ UNCHANGED gh_others

get_hostname_from_ip_try_uncaught(dur, name) ==
    /\ gh_pc = "try"
    /\ clock' = clock + dur
    /\ IF gh_hist.attempts < gh_failN
         THEN /\ gh_hist' = [gh_hist EXCEPT !.attempts = @ + 1,
                                             !.failedDur = @ + dur,
                                             !.lastOk = FALSE]
              /\ gh_pc' = "raised"
              /\ UNCHANGED <<gh_output, gh_ret>>
         ELSE /\ gh_hist' = [gh_hist EXCEPT !.attempts = @ + 1,
                                             !.lastOk = TRUE]
              /\ gh_output' = name
              /\ gh_ret' = PyStr(name)
              /\ gh_pc' = "done"
    /\ UNCHANGED <<gh_timeout, gh_timeup, gh_failN>>
    /\ UNCHANGED gh_others

\* try: output = execute(lambda: run('hostname'), host=ip); break, and then
\* return output[ip]; except: go to sleep.  The command takes dur seconds
get_hostname_from_ip_try(dur, name) ==
    /\ gh_pc = "try"
    /\ clock' = clock + dur
    /\ IF gh_hist.attempts < gh_failN
         THEN /\ gh_hist' = [gh_hist EXCEPT !.attempts = @ + 1,
                                             !.failedDur = @ + dur,
                                             !.lastOk = FALSE]
              /\ gh_pc' = "sleep"
              /\ UNCHANGED <<gh_output, gh_ret>>
         ELSE /\ gh_hist' = [gh_hist EXCEPT !.attempts = @ + 1,
                                             !.lastOk = TRUE]
              /\ gh_output' = name
              /\ gh_ret' = PyStr(name)
              /\ gh_pc' = "done"
    /\ UNCHANGED <<gh_timeout, gh_timeup, gh_failN>>
    /\ UNCHANGED gh_others

\* except: time.sleep(5), then the next iteration
get_hostname_from_ip_sleep ==
    /\ gh_pc = "sleep"
    /\ clock' = clock + SleepFor
    /\ gh_hist' = [gh_hist EXCEPT !.sleeps = @ + 1]
    /\ gh_pc' = "check"
    /\ UNCHANGED <<gh_timeout, gh_timeup, gh_output, gh_ret, gh_failN>>
    /\ UNCHANGED gh_others

get_hostname_from_ip ==
    \/ \E timeout \in Timeouts, failN \in 0 .. MaxFail :
           get_hostname_from_ip_call(timeout, failN)
    \/ get_hostname_from_ip_check
    \/ \E dur \in 0 .. MaxCmdDur, name \in Hostnames :
           get_hostname_from_ip_try(dur, name)
    \/ get_hostname_from_ip_sleep

(***************************************************************************)
(* copy_ssh_key(from_host, to_hosts)                                       *)
(*                                                                         *)
(* A host's ~/.ssh is a record: dir (the directory exists), priv and pub   *)
(* (content of id_rsa and id_rsa.pub, NoFile when absent) and auth (the    *)
(* lines of authorized_keys).  A usable private key is named by the text   *)
(* of its public half; BadKey is an id_rsa that ssh-keygen -y cannot read. *)
(***************************************************************************)
NoFile == "<no file>"
BadKey == "<unreadable>"
StoredKeys == {"k0"}            \* private keys a host may already hold
StalePubs == {"", "old"}        \* id_rsa.pub content a host may already hold
GenKey(host) == host            \* the key pair ssh-keygen makes on host

Cmd(host, cmd, arg) == [host |-> host, cmd |-> cmd, arg |-> arg]

\* run('mkdir -p ~/.ssh')
RunMkdir(f) == [f EXCEPT !.dir = TRUE]

\* run('[ ! -f ~/.ssh/id_rsa ] || ssh-keygen -y -f ~/.ssh/id_rsa >
\* ~/.ssh/id_rsa.pub'): the redirection truncates id_rsa.pub before
\* ssh-keygen runs
RunDerivePub(f) ==
    IF f.priv = NoFile THEN f
    ELSE IF f.priv = BadKey THEN [f EXCEPT !.pub = ""]
    ELSE [f EXCEPT !.pub = f.priv]

\* run() aborts when the command exits with a status other than 0
DerivePubFails(f) == f.priv = BadKey

\* run('[ -f ~/.ssh/id_rsa.pub ] || ssh-keygen -f ~/.ssh/id_rsa -t rsa -N ""')
RunGenKeypair(f, host) ==
    IF f.pub # NoFile THEN f
    ELSE [f EXCEPT !.priv = GenKey(host), !.pub = GenKey(host)]

\* run('[ ! -f ~/.ssh/id_rsa.pub ] || cat ~/.ssh/id_rsa.pub')
RunCatPub(f) == IF f.pub = NoFile THEN "" ELSE f.pub

AppendLine_overwrite(auth, line) == <<line>>

\* run('echo "{0}" >> ~/.ssh/authorized_keys'.format(pub_key))
AppendLine(auth, line) == Append(auth, line)

Truthy_always(str) == TRUE

\* if pub_key:
Truthy(str) == str # ""

\* for to_host in to_hosts: mkdir -p ~/.ssh, then the append
RECURSIVE Deploy(_, _, _)
Deploy(st, to_hosts, key) ==
    IF to_hosts = <<>> THEN st
    ELSE LET to_host == Head(to_hosts)
             made == [st.fs EXCEPT ![to_host] = RunMkdir(@)]
             sent == [made EXCEPT ![to_host].auth = AppendLine(@, key)]
         IN  Deploy([fs |-> sent,
                     log |-> st.log \o <<Cmd(to_host, "mkdir", ""),
                                         Cmd(to_host, "append", key)>>],
                    Tail(to_hosts), key)

\* the whole call: the state of the hosts and the commands run, and whether
\* a command aborted the call
CopySshKey(fsys, from_host, to_hosts) ==
    LET s1 == [fsys EXCEPT ![from_host] = RunMkdir(@)]
        s2 == [s1 EXCEPT ![from_host] = RunDerivePub(@)]
        s3 == [s2 EXCEPT ![from_host] = RunGenKeypair(@, from_host)]
        key == RunCatPub(s3[from_host])
        log2 == <<Cmd(from_host, "mkdir", ""), Cmd(from_host, "derive_pub", "")>>
        log4 == log2 \o <<Cmd(from_host, "gen_keypair", ""),
                          Cmd(from_host, "cat_pub", "")>>
    IN  IF DerivePubFails(s1[from_host])
          THEN [fs |-> s2, log |-> log2, key |-> "", pc |-> "raised"]
        ELSE IF Truthy(key)
          THEN LET d == Deploy([fs |-> s3, log |-> log4], to_hosts, key)
               IN  [fs |-> d.fs, log |-> d.log, key |-> key, pc |-> "done"]
        ELSE [fs |-> s3, log |-> log4, key |-> key, pc |-> "done"]

Occurrences(seq, x) == Cardinality({i \in DOMAIN seq : seq[i] = x})

Hosts == {"h1", "h2"}
MaxTargets == 2          \* to_hosts lists of up to MaxTargets hosts
MaxCalls == 2            \* calls of copy_ssh_key in one run
TargetLists == UNION {[1 .. n -> Hosts] : n \in 0 .. MaxTargets}

SshStates ==
    {[dir |-> d, priv |-> pr, pub |-> pu, auth |-> <<>>] :
        d \in BOOLEAN, pr \in {NoFile, BadKey} \cup StoredKeys,
        pu \in {NoFile} \cup StalePubs}

copy_ssh_key_init ==
    /\ fs \in [Hosts -> {f \in SshStates :
                            (f.priv # NoFile \/ f.pub # NoFile) => f.dir}]
    /\ pub_key = ""
    /\ ssh_pc = "idle"
    /\ ssh_args = [from_host |-> "h1", to_hosts |-> <<>>]
    /\ ssh_log = <<>>
    /\ ssh_before = fs
    /\ ssh_hist = [calls |-> 0,
                   key |-> [h \in Hosts |-> ""],
                   sent |-> [h \in Hosts |-> [t \in Hosts |-> 0]]]

copy_ssh_key(from_host, to_hosts) ==
    LET r == CopySshKey(fs, from_host, to_hosts)
        deployed == r.pc = "done" /\ r.key # ""
    IN  /\ ssh_hist.calls < MaxCalls
        /\ fs' = r.fs
        /\ pub_key' = r.key
        /\ ssh_pc' = r.pc
        /\ ssh_log' = r.log
        /\ ssh_args' = [from_host |-> from_host, to_hosts |-> to_hosts]
        /\ ssh_before' = fs
        /\ ssh_hist' =
              IF deployed
                THEN [calls |-> ssh_hist.calls + 1,
                      key |-> [ssh_hist.key EXCEPT ![from_host] = r.key],
                      sent |-> [ssh_hist.sent EXCEPT ![from_host] =
                                  [t \in Hosts |-> @[t] + Occurrences(to_hosts, t)]]]
                ELSE [ssh_hist EXCEPT !.calls = @ + 1]
        /\ UNCHANGED ssh_others

(***************************************************************************)
(* get_sat_cap_version(product) and _extract_sat_cap_version(command)      *)
(*                                                                         *)
(* Texts that the code searches (the product name, the commands' output)   *)
(* are sequences of one-character strings.                                 *)
(***************************************************************************)
Digits == {"0", "1", "2", "3", "4", "5", "6", "7", "8", "9"}
UpperCase == <<"A", "B", "C", "D", "E", "F", "G", "H", "I", "J", "K", "L", "M",
               "N", "O", "P", "Q", "R", "S", "T", "U", "V", "W", "X", "Y", "Z">>
LowerCase == <<"a", "b", "c", "d", "e", "f", "g", "h", "i", "j", "k", "l", "m",
               "n", "o", "p", "q", "r", "s", "t", "u", "v", "w", "x", "y", "z">>

\* str.lower()
Lower(text) ==
    [i \in DOMAIN text |->
        IF \E k \in DOMAIN UpperCase : UpperCase[k] = text[i]
          THEN LowerCase[CHOOSE k \in DOMAIN UpperCase : UpperCase[k] = text[i]]
          ELSE text[i]]

\* sub in text
Contains(text, sub) ==
    \E i \in 1 .. Len(text) - Len(sub) + 1 :
        SubSeq(text, i, i + Len(sub) - 1) = sub

\* the first position from i on that [^\d]* cannot consume
RECURSIVE SkipNonDigits(_, _)
SkipNonDigits(text, i) ==
    IF i <= Len(text) /\ text[i] \notin Digits
      THEN SkipNonDigits(text, i + 1) ELSE i

RECURSIVE SkipDots(_, _)
SkipDots(text, i) ==
    IF i <= Len(text) /\ text[i] = "." THEN SkipDots(text, i + 1) ELSE i

RECURSIVE SkipDigits(_, _)
SkipDigits(text, i) ==
    IF i <= Len(text) /\ text[i] \in Digits THEN SkipDigits(text, i + 1) ELSE i

\* \d(\.\d\.*\d*){1} matched at position p: the position after the match,
\* 0 when there is no match at p
VersionEnd(text, p) ==
    IF /\ p + 2 <= Len(text)
       /\ text[p] \in Digits
       /\ text[p + 1] = "."
       /\ text[p + 2] \in Digits
      THEN SkipDigits(text, SkipDots(text, p + 3))
      ELSE 0

\* re.search(r'[^\d]*(?P<version>\d(\.\d\.*\d*){1})', cmd_result): the
\* leftmost start position with a match; from a start position the greedy
\* [^\d]* can end only where the next character is a digit
RECURSIVE Search(_, _)
Search(text, start) ==
    IF start > Len(text) THEN [found |-> FALSE, version |-> <<>>]
    ELSE LET p == SkipNonDigits(text, start)
             e == VersionEnd(text, p)
         IN  IF p <= Len(text) /\ e > 0
               THEN [found |-> TRUE, version |-> SubSeq(text, p, e - 1)]
               ELSE Search(text, start + 1)

\* _extract_sat_cap_version(command): run(command, quiet=True) and the
\* search; (version, cmd_result), version None without a match
ExtractSatCapVersion(remote, command) ==
    LET cmd_result == remote[command]
        result == Search(cmd_result, 1)
    IN  [version |-> result.version, found |-> result.found,
         cmd_result |-> cmd_result]

RpmSatellite == "rpm -q satellite"
GrepVersion == "grep \"VERSION\" /usr/share/foreman/lib/satellite/version.rb"
RpmCapsule == "rpm -q satellite-capsule"
NoneCommand == "None"
Commands == {RpmSatellite, GrepVersion, RpmCapsule, NoneCommand}

IsSat(product) == Contains(Lower(product), <<"s", "a", "t">>)
IsCap(product) == Contains(Lower(product), <<"c", "a", "p">>)

CommandPair_swapped(product) ==
    IF IsCap(product) THEN <<NoneCommand, RpmCapsule>>
    ELSE <<GrepVersion, RpmSatellite>>

\* (_6_2_VERSION_COMMAND, _LT_6_2_VERSION_COMMAND): the 'cap' branch is
\* tested second and overwrites the 'sat' pair
CommandPair(product) ==
    IF IsCap(product) THEN <<RpmCapsule, NoneCommand>>
    ELSE <<RpmSatellite, GrepVersion>>

PyNone == [kind |-> "None", val |-> <<>>]
NoWarning == [logged |-> FALSE, text |-> <<>>]

GetSatCapVersion_eager(remote, product) ==
    IF ~IsSat(product) /\ ~IsCap(product)
      THEN [pc |-> "raised", log |-> <<>>, ret |-> PyNone, warning |-> NoWarning]
    ELSE LET cmds == CommandPair(product)
             first == ExtractSatCapVersion(remote, cmds[1])
             second == ExtractSatCapVersion(remote, cmds[2])
         IN  IF first.found /\ first.version # <<>>
               THEN [pc |-> "done", log |-> cmds,
                     ret |-> [kind |-> "str", val |-> first.version],
                     warning |-> NoWarning]
             ELSE IF second.found /\ second.version # <<>>
               THEN [pc |-> "done", log |-> cmds,
                     ret |-> [kind |-> "str", val |-> second.version],
                     warning |-> NoWarning]
             ELSE [pc |-> "done", log |-> cmds, ret |-> PyNone,
                   warning |-> [logged |-> TRUE, text |-> second.cmd_result]]

\* the whole call: the generator runs a command only when the loop asks for
\* its result; a product that is neither 'sat' nor 'cap' leaves the command
\* names unbound
GetSatCapVersion(remote, product) ==
    IF ~IsSat(product) /\ ~IsCap(product)
      THEN [pc |-> "raised", log |-> <<>>, ret |-> PyNone, warning |-> NoWarning]
    ELSE LET cmds == CommandPair(product)
             first == ExtractSatCapVersion(remote, cmds[1])
             second == ExtractSatCapVersion(remote, cmds[2])
         IN  IF first.found /\ first.version # <<>>
               THEN [pc |-> "done", log |-> <<cmds[1]>>,
                     ret |-> [kind |-> "str", val |-> first.version],
                     warning |-> NoWarning]
             ELSE IF second.found /\ second.version # <<>>
               THEN [pc |-> "done", log |-> cmds,
                     ret |-> [kind |-> "str", val |-> second.version],
                     warning |-> NoWarning]
             ELSE [pc |-> "done", log |-> cmds, ret |-> PyNone,
                   warning |-> [logged |-> TRUE, text |-> second.cmd_result]]

Products ==
    {<<"s", "a", "t", "e", "l", "l", "i", "t", "e">>,
     <<"C", "a", "p", "s", "u", "l", "e">>,
     <<"s", "a", "t", "-", "c", "a", "p">>,
     <<"p", "r", "o", "x", "y">>}

\* satellite-6.2.1-1, VERSION = "6.1.9", 7x6.10, no digits, nothing
Outputs ==
    {<<"s", "a", "t", "-", "6", ".", "2", ".", "1", "-", "1">>,
     <<"V", "=", "q", "6", ".", "1", ".", "9", "q">>,
     <<"7", "x", "6", ".", "1", "0">>,
     <<"n", "o", "n", "e">>,
     <<>>}

get_sat_cap_version_init ==
    /\ ver_pc = "idle"
    /\ ver_product = <<>>
    /\ ver_remote \in [Commands -> Outputs]
    /\ ver_log = <<>>
    /\ ver_ret = PyNone
    /\ ver_warning = NoWarning

get_sat_cap_version(product) ==
    LET r == GetSatCapVersion(ver_remote, product)
    IN  /\ ver_pc = "idle"
        /\ ver_product' = product
        /\ ver_pc' = r.pc
        /\ ver_log' = r.log
        /\ ver_ret' = r.ret
        /\ ver_warning' = r.warning
        /\ UNCHANGED ver_remote
        /\ UNCHANGED ver_others

(***************************************************************************)
(* create_setup_dict(setups_dict) and get_setup_data()                     *)
(*                                                                         *)
(* A Python value and a JSON value are records of one shape: t the type,   *)
(* n the number, s the text, items the members.  A dict holds "item"       *)
(* members <<key, value>>, a JSON object holds "pair" members with the key *)
(* in s and the value as the only member.                                  *)
(***************************************************************************)
Val(t, n, s, items) == [t |-> t, n |-> n, s |-> s, items |-> items]
IntVal(n) == Val("int", n, "", <<>>)
StrVal(s) == Val("str", 0, s, <<>>)
Unicode(s) == Val("unicode", 0, s, <<>>)
List(items) == Val("list", 0, "", items)
Tuple(items) == Val("tuple", 0, "", items)
SetOf(items) == Val("set", 0, "", items)
Item(key, value) == Val("item", 0, "", <<key, value>>)
Dict(items) == Val("dict", 0, "", items)
Nil == Val("nil", 0, "", <<>>)

DecimalDigits == <<"0", "1", "2", "3", "4", "5", "6", "7", "8", "9">>

\* the JSON encoder's key text: a str key as it is, an int key as its
\* decimal text (keys 0 .. 9 here)
KeyText(key) == IF key.t = "int" THEN DecimalDigits[key.n + 1] ELSE key.s

\* json.dump raises TypeError for a value or a key it cannot encode
RECURSIVE Serializable(_)
Serializable(v) ==
    CASE v.t \in {"int", "str", "unicode"} -> TRUE
      [] v.t \in {"list", "tuple"} ->
            \A i \in DOMAIN v.items : Serializable(v.items[i])
      [] v.t = "dict" ->
            \A i \in DOMAIN v.items :
                /\ v.items[i].items[1].t \in {"int", "str", "unicode"}
                /\ Serializable(v.items[i].items[2])
      [] OTHER -> FALSE

\* the document json.dump writes for a value
RECURSIVE Encode(_)
Encode(v) ==
    CASE v.t = "int" -> Val("number", v.n, "", <<>>)
      [] v.t \in {"str", "unicode"} -> Val("string", 0, v.s, <<>>)
      [] v.t \in {"list", "tuple"} ->
            Val("array", 0, "", [i \in DOMAIN v.items |-> Encode(v.items[i])])
      [] v.t = "dict" ->
            Val("object", 0, "",
                [i \in DOMAIN v.items |->
                    Val("pair", 0, KeyText(v.items[i].items[1]),
                        <<Encode(v.items[i].items[2])>>)])

\* the pairs of an object that survive in the dict: for a repeated key the
\* last one
RECURSIVE LastPairs(_, _)
LastPairs(pairs, i) ==
    IF i > Len(pairs) THEN <<>>
    ELSE IF \E k \in DOMAIN pairs : k > i /\ pairs[k].s = pairs[i].s
      THEN LastPairs(pairs, i + 1)
      ELSE <<pairs[i]>> \o LastPairs(pairs, i + 1)

\* the value json.load builds from a document
RECURSIVE Decode(_)
Decode(j) ==
    CASE j.t = "number" -> IntVal(j.n)
      [] j.t = "string" -> Unicode(j.s)
      [] j.t = "array" -> List([i \in DOMAIN j.items |-> Decode(j.items[i])])
      [] j.t = "object" ->
            LET pairs == LastPairs(j.items, 1)
            IN  Dict([i \in DOMAIN pairs |->
                        Item(Unicode(pairs[i].s), Decode(pairs[i].items[1]))])

NoSetupFile == [state |-> "absent", doc |-> Nil]
Malformed == [state |-> "malformed", doc |-> Nil]

WriteFile_append(old, doc) ==
    IF old.state = "absent" THEN [state |-> "json", doc |-> doc] ELSE Malformed

\* open('product_setup', 'wb') and a json.dump that completes: the file
\* holds the new document and nothing else
WriteFile(old, doc) == [state |-> "json", doc |-> doc]

\* the keys and the values of the mappings passed to create_setup_dict
SetupKeys == <<StrVal("a"), StrVal("b"), IntVal(1)>>
SetupValues ==
    {IntVal(1), StrVal("x"), List(<<IntVal(1), IntVal(2)>>), Tuple(<<IntVal(1), IntVal(2)>>),
     Dict(<<Item(StrVal("b"), IntVal(1))>>), SetOf(<<>>)}

RECURSIVE Present(_, _)
Present(choice, i) ==
    IF i > Len(choice) THEN <<>>
    ELSE IF choice[i] = Nil THEN Present(choice, i + 1)
    ELSE <<Item(SetupKeys[i], choice[i])>> \o Present(choice, i + 1)

SetupDicts ==
    {Dict(Present(choice, 1)) :
        choice \in [DOMAIN SetupKeys -> SetupValues \cup {Nil}]}

create_setup_dict_init ==
    /\ setup_file = NoSetupFile
    /\ setup_arg = Nil
    /\ setup_put = "none"
    /\ setup_get = "none"
    /\ setup_data = Nil

\* with open('product_setup', 'wb') as pref: json.dump(setups_dict, pref);
\* open() truncates the file, and a dump that raises leaves it without a
\* complete document
create_setup_dict(setups_dict) ==
    /\ setup_arg' = setups_dict
    /\ IF Serializable(setups_dict)
         THEN /\ setup_file' = WriteFile(setup_file, Encode(setups_dict))
              /\ setup_put' = "done"
         ELSE /\ setup_file' = Malformed
              /\ setup_put' = "raised"
    /\ setup_get' = "none"
    /\ setup_data' = Nil
    /\ UNCHANGED setup_others

\* with open('product_setup', 'r') as pref: data = json.load(pref)
get_setup_data ==
    /\ IF setup_file.state = "json"
         THEN /\ setup_data' = Decode(setup_file.doc)
              /\ setup_get' = "done"
         ELSE /\ setup_data' = Nil
              /\ setup_get' = "raised"
    /\ UNCHANGED <<setup_file, setup_arg, setup_put>>
    /\ UNCHANGED setup_others

vars == <<clock, hp_vars, gh_vars, ssh_vars, ver_vars, setup_vars>>

InitAll ==
    /\ clock = 0
    /\ host_pings_init
    /\ get_hostname_from_ip_init
    /\ create_setup_dict_init

NoSsh == [dir |-> FALSE, priv |-> NoFile, pub |-> NoFile, auth |-> <<>>]

\* the helpers that a specification leaves alone, in one fixed state
RestSsh == copy_ssh_key_init /\ fs = [h \in Hosts |-> NoSsh]
RestVer == get_sat_cap_version_init
             /\ ver_remote = [c \in Commands |-> <<>>]

InitPing == InitAll /\ RestSsh /\ RestVer
NextPing == host_pings
SpecPing == InitPing /\ [][NextPing]_vars

InitHost == InitPing
NextHost == get_hostname_from_ip
SpecHost == InitHost /\ [][NextHost]_vars
\* the function runs on one thread that keeps taking its next step
SpecHostFair == SpecHost /\ WF_vars(NextHost)

InitSsh == InitAll /\ copy_ssh_key_init /\ RestVer
NextSsh ==
    \E from_host \in Hosts, to_hosts \in TargetLists :
        copy_ssh_key(from_host, to_hosts)
SpecSsh == InitSsh /\ [][NextSsh]_vars

InitVer == InitAll /\ RestSsh /\ get_sat_cap_version_init
NextVer == \E product \in Products : get_sat_cap_version(product)
SpecVer == InitVer /\ [][NextVer]_vars

InitSetup == InitAll /\ RestSsh /\ RestVer
NextSetup ==
    \/ \E setups_dict \in SetupDicts : create_setup_dict(setups_dict)
    \/ get_setup_data
SpecSetup == InitSetup /\ [][NextSetup]_vars

(***************************************************************************)
(* C1: in host_pings the deadline is checked before the exit code: when    *)
(* the clock read after a ping is strictly past timeup, the call returns   *)
(* False, also when that ping exited with 0; it never returns True from an *)
(* iteration whose clock reading is past the deadline.                     *)
(***************************************************************************)
C1_DeadlineBeforeSuccess ==
    (hp_pc = "done" /\ clock > hp_timeup) => hp_ret = FALSE

C1_Witness ==
    /\ hp_pc = "done"
    /\ clock > hp_timeup
    /\ hp_output = 0
    /\ hp_ret = FALSE

\* the deadline of the call, from its arguments
hp_deadline == hp_hist.start + hp_timeout * SecondsPerMinute

(***************************************************************************)
(* C2 as stated: for a host whose every ping succeeds, host_pings returns  *)
(* True in its first iteration, without sleeping, for every timeout        *)
(* (0 included) and every duration of the ping.                            *)
(***************************************************************************)
C2_Original ==
    (hp_pc = "done" /\ hp_hist.allOk) =>
        (hp_ret = TRUE /\ hp_hist.pings = 1 /\ hp_hist.sleeps = 0)

(***************************************************************************)
(* C2 amended: for a host whose every ping succeeds, host_pings returns in *)
(* its first iteration, without sleeping; it returns True exactly when the *)
(* first ping took no longer than timeout*60 seconds, and False otherwise. *)
(***************************************************************************)
C2_FirstIteration ==
    (hp_pc = "done" /\ hp_hist.allOk) =>
        /\ hp_hist.pings = 1
        /\ hp_hist.sleeps = 0
        /\ clock = hp_hist.start + hp_hist.firstDur
        /\ hp_ret = (hp_hist.firstDur <= hp_timeout * SecondsPerMinute)

C2_Witness ==
    /\ hp_pc = "done"
    /\ hp_hist.allOk
    /\ hp_hist.pings = 1
    /\ hp_timeout = 0
    /\ hp_hist.firstDur = 0
    /\ hp_ret = TRUE

(***************************************************************************)
(* C3 as stated: for a host whose every ping fails, host_pings returns     *)
(* False no earlier than start + timeout*60 and no later than that         *)
(* deadline plus one retry interval, whatever the pings' durations.        *)
(***************************************************************************)
C3_Original ==
    (hp_pc = "done" /\ hp_hist.allFail) =>
        /\ hp_ret = FALSE
        /\ clock >= hp_deadline
        /\ clock <= hp_deadline + RetryInterval

(***************************************************************************)
(* C3 amended: for a host whose every ping fails, host_pings returns False *)
(* strictly after start + timeout*60 and no later than that deadline plus  *)
(* one retry interval plus the duration of the last ping.                  *)
(***************************************************************************)
C3_FailsWithinInterval ==
    (hp_pc = "done" /\ hp_hist.allFail) =>
        /\ hp_ret = FALSE
        /\ clock > hp_deadline
        /\ clock <= hp_deadline + RetryInterval + hp_hist.lastDur

C3_Witness ==
    /\ hp_pc = "done"
    /\ hp_hist.allFail
    /\ hp_timeout = MaxTimeout
    /\ hp_hist.sleeps > 0
    /\ hp_ret = FALSE
    /\ clock = hp_deadline + RetryInterval + hp_hist.lastDur

gh_budget == gh_timeout * SecondsPerMinute

(***************************************************************************)
(* C4 as stated: with a remote command that fails exactly N times and then *)
(* succeeds, get_hostname_from_ip returns the hostname after exactly N     *)
(* sleeps and N+1 attempts if N*5 < timeout*60, and False otherwise.       *)
(***************************************************************************)
C4_Original ==
    gh_pc = "done" =>
        IF gh_failN * RetryInterval < gh_budget
          THEN /\ gh_ret = PyStr(gh_output)
               /\ gh_hist.sleeps = gh_failN
               /\ gh_hist.attempts = gh_failN + 1
          ELSE gh_ret = PyFalse

(***************************************************************************)
(* C4 amended: with a remote command that fails exactly N times and then   *)
(* succeeds, get_hostname_from_ip returns the hostname after exactly N     *)
(* sleeps and N+1 attempts when N*5 s plus the time spent in the N failed  *)
(* attempts is at most timeout*60 s; otherwise it returns False, at the    *)
(* first loop entry where 5 s per sleep plus the time spent in the failed  *)
(* attempts exceeds timeout*60 s, after at most N attempts.                *)
(***************************************************************************)
C4_RetriesWithinBudget ==
    gh_pc = "done" =>
        IF gh_hist.sleeps * RetryInterval + gh_hist.failedDur <= gh_budget
          THEN /\ gh_ret = PyStr(gh_output)
               /\ gh_hist.sleeps = gh_failN
               /\ gh_hist.attempts = gh_failN + 1
          ELSE /\ gh_ret = PyFalse
               /\ gh_hist.attempts <= gh_failN
               /\ gh_hist.sleeps = gh_hist.attempts

C4_Witness ==
    /\ gh_pc = "done"
    /\ gh_timeout = MaxTimeout
    /\ gh_failN * RetryInterval = gh_budget
    /\ gh_hist.failedDur = 0
    /\ gh_hist.sleeps = gh_failN
    /\ gh_hist.attempts = gh_failN + 1
    /\ gh_ret = PyStr(gh_output)

gh_outcome ==
    \/ gh_pc # "done"
    \/ /\ gh_ret = PyStr(gh_output)
       /\ gh_output \in Hostnames
       /\ gh_hist.lastOk
    \/ /\ gh_ret = PyFalse
       /\ clock > gh_hist.start + gh_budget

(***************************************************************************)
(* C5: every call of get_hostname_from_ip ends, and ends in one of two     *)
(* outcomes: it returns the hostname that the last, successful attempt     *)
(* produced, or it returns False after the deadline has passed; a failure  *)
(* of the remote command never reaches the caller.                         *)
(***************************************************************************)
C5_ReturnsNameOrFalse ==
    /\ [](gh_outcome /\ gh_pc \in {"idle", "check", "try", "sleep", "done"})
    /\ <>(gh_pc = "done")

C5_Witness ==
    /\ gh_pc = "done"
    /\ gh_ret = PyFalse
    /\ gh_failN = MaxFail
    /\ gh_hist.attempts > 0


SourceCmds(host) ==
    <<Cmd(host, "mkdir", ""), Cmd(host, "derive_pub", ""),
      Cmd(host, "gen_keypair", ""), Cmd(host, "cat_pub", "")>>

(***************************************************************************)
(* C6: when copy_ssh_key reads an empty public key on the source host, it  *)
(* runs no command for any target host (no mkdir, no append: the only      *)
(* commands of the call are the four on the source host), it returns       *)
(* without an error, and the state of every target host is unchanged.      *)
(***************************************************************************)
C6_EmptyKeyNoWrite ==
    (ssh_pc = "done" /\ pub_key = "") =>
        /\ ssh_log = SourceCmds(ssh_args.from_host)
        /\ \A i \in DOMAIN ssh_args.to_hosts :
              fs[ssh_args.to_hosts[i]] = ssh_before[ssh_args.to_hosts[i]]

C6_Witness ==
    /\ ssh_pc = "done"
    /\ pub_key = ""
    /\ Len(ssh_args.to_hosts) = MaxTargets
    /\ \E i \in DOMAIN ssh_args.to_hosts :
          ssh_args.to_hosts[i] # ssh_args.from_host

\* the commands a call runs for its targets: mkdir, then the append, per
\* entry of to_hosts
TargetCmds(to_hosts, key) ==
    [i \in 1 .. 2 * Len(to_hosts) |->
        IF i % 2 = 1 THEN Cmd(to_hosts[(i + 1) \div 2], "mkdir", "")
                     ELSE Cmd(to_hosts[i \div 2], "append", key)]

Repeat(line, n) == [i \in 1 .. n |-> line]

RECURSIVE SentWithKey(_, _, _)
SentWithKey(sources, line, target) ==
    IF sources = {} THEN 0
    ELSE LET f == CHOOSE h \in sources : TRUE
         IN  (IF ssh_hist.key[f] = line THEN ssh_hist.sent[f][target] ELSE 0)
             + SentWithKey(sources \ {f}, line, target)

KeyLines == Hosts \cup StoredKeys \cup StalePubs

(***************************************************************************)
(* C9: with a non-empty public key, copy_ssh_key runs for every entry of   *)
(* to_hosts, in list order, mkdir -p ~/.ssh on that host and then the      *)
(* append to its authorized_keys; each call appends one key line per       *)
(* occurrence of a host in to_hosts, and nothing is de-duplicated: a       *)
(* target's authorized_keys holds one copy of a source's key line per      *)
(* occurrence in every call made so far from that source.                  *)
(***************************************************************************)
C9_AppendsPerOccurrence ==
    /\ (ssh_pc = "done" /\ pub_key # "") =>
          /\ ssh_log = SourceCmds(ssh_args.from_host)
                          \o TargetCmds(ssh_args.to_hosts, pub_key)
          /\ \A t \in Hosts :
                fs[t].auth = ssh_before[t].auth
                    \o Repeat(pub_key, Occurrences(ssh_args.to_hosts, t))
    /\ \A t \in Hosts, line \in KeyLines \ {""} :
          Occurrences(fs[t].auth, line) = SentWithKey(Hosts, line, t)

C9_Witness ==
    /\ ssh_pc = "done"
    /\ pub_key # ""
    /\ ssh_hist.calls = 2
    /\ \E t \in Hosts :
          /\ ssh_hist.sent[ssh_args.from_host][t] = 3
          /\ Occurrences(fs[t].auth, pub_key) = 3
          /\ Occurrences(ssh_args.to_hosts, t) = 2

(***************************************************************************)
(* C8: for a product name containing 'sat' or 'cap', get_sat_cap_version   *)
(* tries the newer-release command and then the older-release command, in  *)
(* that order, and returns the version found in the first output that      *)
(* yields a match; when neither output matches it logs a warning with the  *)
(* raw output of the older-release command and returns None.               *)
(***************************************************************************)
C8_FirstMatchOrWarning ==
    (ver_pc = "done" /\ (IsSat(ver_product) \/ IsCap(ver_product))) =>
        LET newer == IF IsCap(ver_product) THEN RpmCapsule ELSE RpmSatellite
            older == IF IsCap(ver_product) THEN NoneCommand ELSE GrepVersion
            v1 == Search(ver_remote[newer], 1)
            v2 == Search(ver_remote[older], 1)
        IN  /\ ver_log \in {<<newer>>, <<newer, older>>}
            /\ IF v1.found
                 THEN ver_ret = [kind |-> "str", val |-> v1.version]
                      /\ ~ver_warning.logged
               ELSE IF v2.found
                 THEN ver_ret = [kind |-> "str", val |-> v2.version]
                      /\ ~ver_warning.logged
               ELSE /\ ver_ret = PyNone
                    /\ ver_warning = [logged |-> TRUE, text |-> ver_remote[older]]

C8_Witness ==
    /\ ver_pc = "done"
    /\ IsSat(ver_product)
    /\ ~IsCap(ver_product)
    /\ ~Search(ver_remote[RpmSatellite], 1).found
    /\ ver_remote[GrepVersion] = <<"V", "=", "q", "6", ".", "1", ".", "9", "q">>
    /\ ver_ret = [kind |-> "str", val |-> <<"6", ".", "1", ".", "9">>]

(***************************************************************************)
(* C10: get_sat_cap_version evaluates its candidate commands lazily: the   *)
(* older-release command (for capsule the literal 'None') is run on the    *)
(* remote host only when the output of the newer-release command yielded   *)
(* no version; when the newer-release command matches, the call runs       *)
(* exactly one remote command.                                             *)
(***************************************************************************)
C10_LazyFallback ==
    ver_pc = "done" =>
        LET newer == IF IsCap(ver_product) THEN RpmCapsule ELSE RpmSatellite
            older == IF IsCap(ver_product) THEN NoneCommand ELSE GrepVersion
            matched == Search(ver_remote[newer], 1).found
        IN  /\ matched => ver_log = <<newer>>
            /\ (\E i \in DOMAIN ver_log : ver_log[i] = older) => ~matched

C10_Witness ==
    /\ ver_pc = "done"
    /\ IsCap(ver_product)
    /\ Search(ver_remote[RpmCapsule], 1).found
    /\ Search(ver_remote[NoneCommand], 1).found
    /\ ver_log = <<RpmCapsule>>

\* Python's == on the modelled values: a str equals the unicode of the same
\* text, a list never equals a tuple, dicts are equal as mappings
RECURSIVE PyEq(_, _)
PyEq(a, b) ==
    CASE a.t = "int" /\ b.t = "int" -> a.n = b.n
      [] a.t \in {"str", "unicode"} /\ b.t \in {"str", "unicode"} -> a.s = b.s
      [] a.t \in {"list", "tuple"} /\ b.t = a.t ->
            /\ Len(a.items) = Len(b.items)
            /\ \A i \in DOMAIN a.items : PyEq(a.items[i], b.items[i])
      [] a.t = "dict" /\ b.t = "dict" ->
            /\ Len(a.items) = Len(b.items)
            /\ \A i \in DOMAIN a.items : \E k \in DOMAIN b.items :
                  /\ PyEq(a.items[i].items[1], b.items[k].items[1])
                  /\ PyEq(a.items[i].items[2], b.items[k].items[2])
      [] OTHER -> FALSE

\* values that JSON holds as they are: numbers, strings, lists, and
\* mappings with string keys, of such values
RECURSIVE JsonNative(_)
JsonNative(v) ==
    CASE v.t \in {"int", "str", "unicode"} -> TRUE
      [] v.t = "list" -> \A i \in DOMAIN v.items : JsonNative(v.items[i])
      [] v.t = "dict" ->
            \A i \in DOMAIN v.items :
                /\ v.items[i].items[1].t \in {"str", "unicode"}
                /\ JsonNative(v.items[i].items[2])
      [] OTHER -> FALSE

(***************************************************************************)
(* C7 as stated: after any sequence of create_setup_dict calls, a          *)
(* following get_setup_data returns a mapping equal to the argument of the *)
(* most recent call; get_setup_data fails when no create_setup_dict has    *)
(* written the file before it.                                             *)
(***************************************************************************)
C7_Original ==
    setup_get # "none" =>
        IF setup_put = "none"
          THEN setup_get = "raised"
          ELSE setup_get = "done" /\ PyEq(setup_data, setup_arg)

(***************************************************************************)
(* C7 amended: after any sequence of create_setup_dict calls, a following  *)
(* get_setup_data returns a mapping equal to the argument of the most      *)
(* recent call when that argument holds only numbers, strings, lists and   *)
(* mappings with string keys (a tuple comes back as a list, a key that is  *)
(* no string as a string, and a value json cannot encode leaves no         *)
(* readable file); get_setup_data fails when no create_setup_dict has      *)
(* written the file before it.                                             *)
(***************************************************************************)
C7_RoundTripJsonNative ==
    setup_get # "none" =>
        IF setup_put = "none"
          THEN setup_get = "raised"
          ELSE JsonNative(setup_arg) =>
                 (setup_get = "done" /\ PyEq(setup_data, setup_arg))

C7_Witness ==
    /\ setup_get = "done"
    /\ setup_arg = Dict(<<Item(StrVal("a"), IntVal(1)),
                          Item(StrVal("b"), List(<<IntVal(1), IntVal(2)>>))>>)
    /\ setup_data = Dict(<<Item(Unicode("a"), IntVal(1)),
                           Item(Unicode("b"), List(<<IntVal(1), IntVal(2)>>))>>)

====
